---------------------------- MODULE Spec2Model ----------------------------
(***************************************************************************)
(* vox2bella: the MagicaVoxel (.vox) reader of src/vox2bella.cpp.          *)
(*                                                                         *)
(* The model follows DL_main and readChunk statement by statement over an  *)
(* input file given as a sequence of bytes.  A byte is a number 0..255, a  *)
(* tag or a string is the tuple of its character codes, a uint32 is read   *)
(* little-endian from four bytes.  A palette entry is kept as its four     *)
(* bytes, low byte first, which is how the code takes it apart             *)
(* ((p >> 0) & 0xFF is byte 1, ... (p >> 24) & 0xFF is byte 4).            *)
(*                                                                         *)
(* Values the C++ leaves undefined are chosen from small sets:             *)
(*   - a chunk header that file.read did not fill keeps what the stack     *)
(*     held before (StaleHeaders), byte for byte;                          *)
(*   - a read past the end of the content vector yields a byte of          *)
(*     GarbageBytes or a word of GarbageWords, or the process dies.        *)
(* Content lengths so large that the content vector cannot be allocated    *)
(* are not among the inputs; every length read fits in 31 bits.            *)
(*                                                                         *)
(* The scene library is not part of the source.  Its nodes are kept as the *)
(* createNode calls the program makes; what createNode does with a name    *)
(* the scene already has is left open (DuplicateNamePolicies).             *)
(***************************************************************************)
EXTENDS Integers, Sequences, FiniteSets, TLC

(***************************************************************************)
(* Bounds of the model.                                                    *)
(***************************************************************************)
\* Call depth of readChunk at which the process stack is exhausted.
MaxDepth == 4
\* Largest voxel count N of a generated XYZI chunk.
MaxVoxels == 2
\* Largest content length K of a generated chunk with an unrecognized tag.
MaxSkip == 2

(***************************************************************************)
(* Sizes fixed by the code.                                                *)
(***************************************************************************)
VoxHeaderSize == 8
ChunkHeaderSize == 12
PaletteSize == 256
VoxelSize == 4

(***************************************************************************)
(* Bytes and little-endian words.                                          *)
(***************************************************************************)
Min(a, b) == IF a < b THEN a ELSE b

Zeros(n) == [i \in 1..n |-> 0]

\* The four bytes of a uint32, low byte first (the file's layout).
U32(n) == << n % 256, (n \div 256) % 256, (n \div 65536) % 256,
             (n \div 16777216) % 256 >>

\* *reinterpret_cast<uint32_t*>(p) on a little-endian machine.
LE32(b) == b[1] + 256 * b[2] + 65536 * b[3] + 16777216 * b[4]

\* *reinterpret_cast<const int32_t*>(p): the same four bytes, two's complement.
LE32Signed(b) ==
    b[1] + 256 * b[2] + 65536 * b[3]
      + 16777216 * (IF b[4] >= 128 THEN b[4] - 256 ELSE b[4])

RECURSIVE Concat(_)
Concat(ss) == IF ss = << >> THEN << >> ELSE Head(ss) \o Concat(Tail(ss))

(***************************************************************************)
(* Tags, as character codes.                                               *)
(***************************************************************************)
VoxMagic == << 86, 79, 88, 32 >>       \* "VOX "
TagMAIN == << 77, 65, 73, 78 >>
TagSIZE == << 83, 73, 90, 69 >>
TagXYZI == << 88, 89, 90, 73 >>
TagRGBA == << 82, 71, 66, 65 >>
TagRCAM == << 114, 67, 65, 77 >>
TagPACK == << 80, 65, 67, 75 >>
TagROBJ == << 114, 79, 66, 74 >>
TagNTRN == << 110, 84, 82, 78 >>
TagNGRP == << 110, 71, 82, 80 >>
TagNSHP == << 110, 83, 72, 80 >>
TagMATL == << 77, 65, 84, 76 >>
TagMATT == << 77, 65, 84, 84 >>
TagLAYR == << 76, 65, 89, 82 >>
TagIMAP == << 73, 77, 65, 80 >>
TagNOTE == << 78, 79, 84, 69 >>
TagUnknown == << 90, 90, 90, 90 >>     \* "ZZZZ": no branch of readChunk names it

\* The tags whose branch only prints the tag's name.
NameOnlyTags == { TagRCAM, TagPACK, TagROBJ, TagNTRN, TagNGRP, TagNSHP,
                  TagMATT, TagLAYR, TagIMAP, TagNOTE }

\* The tags some branch of the if/else chain of readChunk compares against.
RecognizedTags == { TagSIZE, TagXYZI, TagMATL } \cup NameOnlyTags

(***************************************************************************)
(* The compiled-in palette, each entry as its bytes R, G, B, A.            *)
(***************************************************************************)
DefaultPalette ==
  <<
    <<0,0,0,0>>, <<255,255,255,255>>, <<255,255,204,255>>, <<255,255,153,255>>,
    <<255,255,102,255>>, <<255,255,51,255>>, <<255,255,0,255>>, <<255,204,255,255>>,
    <<255,204,204,255>>, <<255,204,153,255>>, <<255,204,102,255>>, <<255,204,51,255>>,
    <<255,204,0,255>>, <<255,153,255,255>>, <<255,153,204,255>>, <<255,153,153,255>>,
    <<255,153,102,255>>, <<255,153,51,255>>, <<255,153,0,255>>, <<255,102,255,255>>,
    <<255,102,204,255>>, <<255,102,153,255>>, <<255,102,102,255>>, <<255,102,51,255>>,
    <<255,102,0,255>>, <<255,51,255,255>>, <<255,51,204,255>>, <<255,51,153,255>>,
    <<255,51,102,255>>, <<255,51,51,255>>, <<255,51,0,255>>, <<255,0,255,255>>,
    <<255,0,204,255>>, <<255,0,153,255>>, <<255,0,102,255>>, <<255,0,51,255>>,
    <<255,0,0,255>>, <<204,255,255,255>>, <<204,255,204,255>>, <<204,255,153,255>>,
    <<204,255,102,255>>, <<204,255,51,255>>, <<204,255,0,255>>, <<204,204,255,255>>,
    <<204,204,204,255>>, <<204,204,153,255>>, <<204,204,102,255>>, <<204,204,51,255>>,
    <<204,204,0,255>>, <<204,153,255,255>>, <<204,153,204,255>>, <<204,153,153,255>>,
    <<204,153,102,255>>, <<204,153,51,255>>, <<204,153,0,255>>, <<204,102,255,255>>,
    <<204,102,204,255>>, <<204,102,153,255>>, <<204,102,102,255>>, <<204,102,51,255>>,
    <<204,102,0,255>>, <<204,51,255,255>>, <<204,51,204,255>>, <<204,51,153,255>>,
    <<204,51,102,255>>, <<204,51,51,255>>, <<204,51,0,255>>, <<204,0,255,255>>,
    <<204,0,204,255>>, <<204,0,153,255>>, <<204,0,102,255>>, <<204,0,51,255>>,
    <<204,0,0,255>>, <<153,255,255,255>>, <<153,255,204,255>>, <<153,255,153,255>>,
    <<153,255,102,255>>, <<153,255,51,255>>, <<153,255,0,255>>, <<153,204,255,255>>,
    <<153,204,204,255>>, <<153,204,153,255>>, <<153,204,102,255>>, <<153,204,51,255>>,
    <<153,204,0,255>>, <<153,153,255,255>>, <<153,153,204,255>>, <<153,153,153,255>>,
    <<153,153,102,255>>, <<153,153,51,255>>, <<153,153,0,255>>, <<153,102,255,255>>,
    <<153,102,204,255>>, <<153,102,153,255>>, <<153,102,102,255>>, <<153,102,51,255>>,
    <<153,102,0,255>>, <<153,51,255,255>>, <<153,51,204,255>>, <<153,51,153,255>>,
    <<153,51,102,255>>, <<153,51,51,255>>, <<153,51,0,255>>, <<153,0,255,255>>,
    <<153,0,204,255>>, <<153,0,153,255>>, <<153,0,102,255>>, <<153,0,51,255>>,
    <<153,0,0,255>>, <<102,255,255,255>>, <<102,255,204,255>>, <<102,255,153,255>>,
    <<102,255,102,255>>, <<102,255,51,255>>, <<102,255,0,255>>, <<102,204,255,255>>,
    <<102,204,204,255>>, <<102,204,153,255>>, <<102,204,102,255>>, <<102,204,51,255>>,
    <<102,204,0,255>>, <<102,153,255,255>>, <<102,153,204,255>>, <<102,153,153,255>>,
    <<102,153,102,255>>, <<102,153,51,255>>, <<102,153,0,255>>, <<102,102,255,255>>,
    <<102,102,204,255>>, <<102,102,153,255>>, <<102,102,102,255>>, <<102,102,51,255>>,
    <<102,102,0,255>>, <<102,51,255,255>>, <<102,51,204,255>>, <<102,51,153,255>>,
    <<102,51,102,255>>, <<102,51,51,255>>, <<102,51,0,255>>, <<102,0,255,255>>,
    <<102,0,204,255>>, <<102,0,153,255>>, <<102,0,102,255>>, <<102,0,51,255>>,
    <<102,0,0,255>>, <<51,255,255,255>>, <<51,255,204,255>>, <<51,255,153,255>>,
    <<51,255,102,255>>, <<51,255,51,255>>, <<51,255,0,255>>, <<51,204,255,255>>,
    <<51,204,204,255>>, <<51,204,153,255>>, <<51,204,102,255>>, <<51,204,51,255>>,
    <<51,204,0,255>>, <<51,153,255,255>>, <<51,153,204,255>>, <<51,153,153,255>>,
    <<51,153,102,255>>, <<51,153,51,255>>, <<51,153,0,255>>, <<51,102,255,255>>,
    <<51,102,204,255>>, <<51,102,153,255>>, <<51,102,102,255>>, <<51,102,51,255>>,
    <<51,102,0,255>>, <<51,51,255,255>>, <<51,51,204,255>>, <<51,51,153,255>>,
    <<51,51,102,255>>, <<51,51,51,255>>, <<51,51,0,255>>, <<51,0,255,255>>,
    <<51,0,204,255>>, <<51,0,153,255>>, <<51,0,102,255>>, <<51,0,51,255>>,
    <<51,0,0,255>>, <<0,255,255,255>>, <<0,255,204,255>>, <<0,255,153,255>>,
    <<0,255,102,255>>, <<0,255,51,255>>, <<0,255,0,255>>, <<0,204,255,255>>,
    <<0,204,204,255>>, <<0,204,153,255>>, <<0,204,102,255>>, <<0,204,51,255>>,
    <<0,204,0,255>>, <<0,153,255,255>>, <<0,153,204,255>>, <<0,153,153,255>>,
    <<0,153,102,255>>, <<0,153,51,255>>, <<0,153,0,255>>, <<0,102,255,255>>,
    <<0,102,204,255>>, <<0,102,153,255>>, <<0,102,102,255>>, <<0,102,51,255>>,
    <<0,102,0,255>>, <<0,51,255,255>>, <<0,51,204,255>>, <<0,51,153,255>>,
    <<0,51,102,255>>, <<0,51,51,255>>, <<0,51,0,255>>, <<0,0,255,255>>,
    <<0,0,204,255>>, <<0,0,153,255>>, <<0,0,102,255>>, <<0,0,51,255>>,
    <<238,0,0,255>>, <<221,0,0,255>>, <<187,0,0,255>>, <<170,0,0,255>>,
    <<136,0,0,255>>, <<119,0,0,255>>, <<85,0,0,255>>, <<68,0,0,255>>,
    <<34,0,0,255>>, <<17,0,0,255>>, <<0,238,0,255>>, <<0,221,0,255>>,
    <<0,187,0,255>>, <<0,170,0,255>>, <<0,136,0,255>>, <<0,119,0,255>>,
    <<0,85,0,255>>, <<0,68,0,255>>, <<0,34,0,255>>, <<0,17,0,255>>,
    <<0,0,238,255>>, <<0,0,221,255>>, <<0,0,187,255>>, <<0,0,170,255>>,
    <<0,0,136,255>>, <<0,0,119,255>>, <<0,0,85,255>>, <<0,0,68,255>>,
    <<0,0,34,255>>, <<0,0,17,255>>, <<238,238,238,255>>, <<221,221,221,255>>,
    <<187,187,187,255>>, <<170,170,170,255>>, <<136,136,136,255>>, <<119,119,119,255>>,
    <<85,85,85,255>>, <<68,68,68,255>>, <<34,34,34,255>>, <<17,17,17,255>>
    >>

(***************************************************************************)
(* Input files.  A chunk is tag, content length, children length, content, *)
(* children (struct ChunkHeader and the format note at the top of the      *)
(* source).  Chunk writes the lengths its parts have; RawChunk writes the  *)
(* lengths it is given, whatever follows.                                  *)
(***************************************************************************)
RawChunk(id, contentBytes, childrenBytes, rest) ==
    id \o U32(contentBytes) \o U32(childrenBytes) \o rest

Chunk(id, content, children) ==
    RawChunk(id, Len(content), Len(children), content \o children)

\* struct VoxHeader: the magic and a version (150).
FileOf(magic, body) == magic \o U32(150) \o body

\* The i-th voxel (from 0) of a generated list: x, y, z, colorIndex.
SampleVoxel(base, i) == << base + i, 2 * i + 1, 3 * i + 2, 255 - (base + i) >>

\* An XYZI payload: the count, then the voxels.
XyziPayload(n, base) ==
    U32(n) \o Concat([i \in 1..n |-> SampleVoxel(base, i - 1)])

SizePayload == U32(3) \o U32(4) \o U32(5)

\* Keys and values of the generated MATL dictionaries.
KeyRough == << 95, 114, 111, 117, 103, 104 >>     \* "_rough"
KeyType == << 95, 116, 121, 112, 101 >>           \* "_type"
ValPoint4 == << 48, 46, 52 >>                     \* "0.4"
ValMetal == << 95, 109, 101, 116, 97, 108 >>      \* "_metal"
ValEmpty == << >>

\* A MATL dictionary to encode: the id and the key/value pairs.
MatlSamples ==
    { [id |-> 7, pairs |-> << << KeyRough, ValPoint4 >> >>],
      [id |-> -1,
       pairs |-> << << KeyType, ValMetal >>, << KeyRough, ValPoint4 >> >>],
      [id |-> 300, pairs |-> << >>],
      [id |-> 1,
       pairs |-> << << KeyRough, ValEmpty >>, << KeyRough, ValPoint4 >> >>] }

EncodePair(p) == U32(Len(p[1])) \o p[1] \o U32(Len(p[2])) \o p[2]

\* int32 id, uint32 reserved, then [keyLen, key, valLen, value] repeated.
MatlPayload(s) ==
    U32(s.id) \o U32(0) \o Concat([i \in 1..Len(s.pairs) |-> EncodePair(s.pairs[i])])

\* A 256-entry palette payload: entry i is <<i, 255 - i, 7, 255>>.
RgbaPayload ==
    [j \in 1..(4 * PaletteSize) |->
        << (j - 1) \div 4, 255 - ((j - 1) \div 4), 7, 255 >>[((j - 1) % 4) + 1]]

\* Bodies whose every chunk's children exactly fill its children length.
ValidBodies ==
    { << >> }
    \cup { Chunk(TagMAIN, << >>,
                 Chunk(TagSIZE, SizePayload, << >>)
                   \o Chunk(TagXYZI, XyziPayload(n, 1), << >>)) : n \in 0..MaxVoxels }
    \cup { Chunk(TagUnknown, Zeros(k), << >>)
             \o Chunk(TagXYZI, XyziPayload(1, 5), << >>) : k \in 0..MaxSkip }
    \cup { Chunk(TagMAIN, << >>,
                 Chunk(TagXYZI, XyziPayload(1, 2), << >>)
                   \o Chunk(TagUnknown, << 9 >>, << >>)
                   \o Chunk(TagMATL, MatlPayload(s), << >>)) : s \in MatlSamples }
    \cup { Chunk(TagMAIN, << >>,
                 Chunk(TagXYZI, XyziPayload(MaxVoxels, 1), << >>)
                   \o Chunk(TagXYZI, XyziPayload(1, 10), << >>)),
           Chunk(TagMAIN, << >>,
                 Chunk(TagNGRP, << >>, Chunk(TagXYZI, XyziPayload(1, 3), << >>))
                   \o Chunk(TagNOTE, << 1, 2 >>, << >>)),
           Chunk(TagMAIN, << >>,
                 Chunk(TagSIZE, SizePayload \o << 9 >>, << >>)
                   \o Chunk(TagXYZI, XyziPayload(1, 4) \o << 8, 8, 8, 8 >>, << >>)),
           Chunk(TagMAIN, << >>,
                 Chunk(TagXYZI, XyziPayload(1, 6), << >>)
                   \o Chunk(TagRGBA, RgbaPayload, << >>)),
           Chunk(TagRGBA, RgbaPayload \o << 1, 2, 3, 4 >>, << >>) }

ValidFiles == { FileOf(VoxMagic, b) : b \in ValidBodies }

\* Complete files in which a child's lengths overrun its parent's children region.
OverrunBodies ==
    { \* the parent declares 14 children bytes, its child takes 20
      RawChunk(TagMAIN, 0, 14, Chunk(TagXYZI, XyziPayload(1, 1), << >>))
        \o Chunk(TagNOTE, << >>, << >>),
      \* the child declares 12 content bytes, 8 remain in the parent's region
      RawChunk(TagMAIN, 0, 20, RawChunk(TagXYZI, 12, 0, XyziPayload(1, 1)))
        \o Chunk(TagNOTE, Zeros(4), << >>),
      \* the child declares 12 children bytes, none remain in the parent's region
      RawChunk(TagMAIN, 0, 12, RawChunk(TagNGRP, 0, 12, << >>))
        \o Chunk(TagNOTE, << >>, << >>) }

\* Complete files with a recognized chunk shorter than its layout.
ShortPayloadBodies ==
    { Chunk(TagMAIN, << >>, Chunk(TagSIZE, U32(3) \o U32(4), << >>)),
      Chunk(TagMAIN, << >>, Chunk(TagXYZI, U32(1), << >>)),
      Chunk(TagXYZI, U32(1) \o << 7, 7 >>, << >>),
      Chunk(TagXYZI, << >>, << >>),
      Chunk(TagMATL, U32(7), << >>),
      Chunk(TagMATL, U32(7) \o U32(0) \o U32(6) \o << 95, 114 >>, << >>),
      Chunk(TagMATL, U32(7) \o U32(0) \o U32(1) \o << 95 >> \o U32(3) \o << 48 >>,
            << >>),
      Chunk(TagRGBA, Zeros(8), << >>) }

BadMagics == { << 87, 82, 79, 78 >>, << 86, 79, 88, 0 >> }   \* "WRON", "VOX\0"

BadMagicFiles ==
    { FileOf(m, b) : m \in BadMagics,
                     b \in { << >>, Chunk(TagXYZI, XyziPayload(1, 1), << >>) } }

\* The files cut short at every length.
TruncationBase ==
    { FileOf(VoxMagic, b) :
        b \in { Chunk(TagMAIN, << >>,
                      Chunk(TagSIZE, SizePayload, << >>)
                        \o Chunk(TagXYZI, XyziPayload(MaxVoxels, 1), << >>)),
                Chunk(TagXYZI, XyziPayload(MaxVoxels, 1), << >>)
                  \o Chunk(TagNOTE, << 1 >>, << >>),
                Chunk(TagMAIN, << >>,
                      Chunk(TagNGRP, << >>,
                            Chunk(TagXYZI, XyziPayload(1, 3), << >>))) } }

TruncatedFiles ==
    UNION { { SubSeq(f, 1, n) : n \in 0..(Len(f) - 1) } : f \in TruncationBase }

InputFiles ==
    ValidFiles
      \cup { FileOf(VoxMagic, b) : b \in OverrunBodies \cup ShortPayloadBodies }
      \cup BadMagicFiles
      \cup TruncatedFiles

(***************************************************************************)
(* What the C++ leaves undefined.                                          *)
(***************************************************************************)
\* What the stack slot of chunkHeader may hold when file.read does not fill it.
StaleHeaders ==
    { RawChunk(<< 0, 0, 0, 0 >>, 0, 0, << >>),
      RawChunk(TagUnknown, 0, 12, << >>),
      RawChunk(TagXYZI, 4, 0, << >>) }

\* What header.magic may hold when file.read does not fill it.
StaleMagics == { VoxMagic, << 0, 0, 0, 0 >> }

\* A byte, and a uint32, read past the end of the content vector.
GarbageBytes == { 0, 201 }
GarbageWords == { 0, 1 }

(***************************************************************************)
(* The command line and the file system, as DL_main tests them.            *)
(***************************************************************************)
ArgSets ==
    [ version : BOOLEAN, help : BOOLEAN, licenseinfo : BOOLEAN,
      thirdparty : BOOLEAN, voxin : BOOLEAN, extOk : BOOLEAN,
      exists : BOOLEAN, opens : BOOLEAN ]

\* --version, --help, --licenseinfo or --thirdparty was given: DL_main
\* prints and returns 0 before it looks at the input.
InfoRequested(a) == a.version \/ a.help \/ a.licenseinfo \/ a.thirdparty

\* A faulty validation: the open is not tested.
InputRejectedOpenUntested(a) == ~a.voxin \/ ~a.extOk \/ ~a.exists

\* The tests that make DL_main return 1 before it reads: --voxin missing,
\* no ".vox" at the end of the path, no such file, the open failed.
InputRejected(a) == ~a.voxin \/ ~a.extOk \/ ~a.exists \/ ~a.opens

\* The run that gets as far as reading the file.
ReadsFile(a) ==
    /\ ~a.version /\ ~a.help /\ ~a.licenseinfo /\ ~a.thirdparty
    /\ a.voxin /\ a.extOk /\ a.exists /\ a.opens

VARIABLES
    args,           \* the command line and file system facts
    file,           \* the bytes of the input file
    pc,             \* where the program is
    exitCode,       \* DL_main's return value, -1 while it runs
    pos,            \* the stream's get position
    eofbit,         \* std::ios::eofbit of file
    failbit,        \* std::ios::failbit of file
    stack,          \* the readChunk activations inside their child loop
    cur,            \* chunkHeader and content of the innermost activation
    topCalls,       \* calls of readChunk made by DL_main's loop
    voxelPalette,   \* std::vector<uint8_t> voxelPalette
    xforms,         \* createNode("xform", voxXform<i>) calls, with the matrix set
    paletteStores,  \* the stores into unsigned int palette[256]: <<index, bytes>>
    has_palette,    \* bool has_palette
    material,       \* the Material of the last MATL branch
    printedSize,    \* the sizes printed by the SIZE branch, in order
    sceneNodes,     \* names of the nodes DL_main creates before the loop
    voxMats,        \* createNode("orenNayar", voxMat<i>) calls, with the reflectance
    bindings,       \* xformNode["material"] = matNode: the xform found, the voxMat index
    written,        \* sceneWrite.write was called
    oobRead,        \* some read went past the end of a content vector
    uninitRead,     \* some header field was used that no read had filled
    lastDecoded     \* the chunk the branches of readChunk last ran on

vars == << args, file, pc, exitCode, pos, eofbit, failbit, stack, cur, topCalls,
           voxelPalette, xforms, paletteStores, has_palette, material, printedSize,
           sceneNodes, voxMats, bindings, written, oobRead,
           uninitRead, lastDecoded >>

\* The variables that hold what was decoded and built.
modelVars == << voxelPalette, xforms, paletteStores, has_palette, material,
                printedSize, sceneNodes, voxMats, bindings >>

streamVars == << pos, eofbit, failbit >>

\* unsigned int palette[256]: the compiled-in entries, but for those stored
\* into since (indices from 1 here).
palette ==
    [i \in 1..PaletteSize |->
        IF \E st \in paletteStores : st[1] = i
        THEN (CHOOSE st \in paletteStores : st[1] = i)[2]
        ELSE DefaultPalette[i]]

(***************************************************************************)
(* std::ifstream.                                                          *)
(***************************************************************************)
Good == ~eofbit /\ ~failbit

\* file.read(buf, n): the bytes stored, the new position, the new state bits.
\* A stream that is not good stores nothing; a short read stores what there
\* is and sets eofbit and failbit.
StreamRead(n) ==
    IF ~Good
    THEN [got |-> << >>, pos |-> pos, eofbit |-> eofbit, failbit |-> TRUE]
    ELSE LET m == Min(n, Len(file) - pos)
         IN  [got |-> SubSeq(file, pos + 1, pos + m), pos |-> pos + m,
              eofbit |-> m < n, failbit |-> m < n]

\* file.tellg(): -1 once failbit is set.
Tellg == IF failbit THEN -1 ELSE pos

\* buffer after read: the bytes stored, then what the buffer held before.
Overlay(got, before) ==
    [i \in 1..Len(before) |-> IF i <= Len(got) THEN got[i] ELSE before[i]]

(***************************************************************************)
(* Reads of the content vector by the branches of readChunk.               *)
(***************************************************************************)
\* content[off], a garbage byte past the end.
ReadU8(content, off, gb) ==
    IF off < Len(content) THEN content[off + 1] ELSE gb

\* *reinterpret_cast<uint32_t*>(content.data() + off)
ReadU32(content, off, gw) ==
    IF off + 4 <= Len(content) THEN LE32(SubSeq(content, off + 1, off + 4)) ELSE gw

\* *reinterpret_cast<const int32_t*>(content.data() + off)
ReadI32(content, off, gw) ==
    IF off + 4 <= Len(content)
    THEN LE32Signed(SubSeq(content, off + 1, off + 4)) ELSE gw

\* std::string(content.data() + off, n)
ReadString(content, off, n, gb) ==
    [j \in 1..n |-> ReadU8(content, off + j - 1, gb)]

\* The SIZE branch: x, y, z.
DecodeSize(content, gw) ==
    [size |-> << ReadU32(content, 0, gw), ReadU32(content, 4, gw),
                 ReadU32(content, 8, gw) >>,
     oob |-> Len(content) < 12]

\* The voxel loop of the XYZI branch, from voxel i on.
RECURSIVE XyziLoop(_, _, _, _, _, _)
XyziLoop(i, numVoxels, content, gb, vp, xf) ==
    IF i >= numVoxels
    THEN [voxelPalette |-> vp, xforms |-> xf]
    ELSE LET x == ReadU8(content, 4 + (i * VoxelSize) + 0, gb)
             y == ReadU8(content, 4 + (i * VoxelSize) + 1, gb)
             z == ReadU8(content, 4 + (i * VoxelSize) + 2, gb)
             colorIndex == ReadU8(content, 4 + (i * VoxelSize) + 3, gb)
         IN  XyziLoop(i + 1, numVoxels, content, gb,
                      Append(vp, colorIndex),
                      Append(xf, [name |-> i, at |-> << x, y, z >>]))

\* A faulty XYZI branch: the loop starts at voxel 1.
DecodeXyziFromOne(content, vp, xf, gw, gb) ==
    LET numVoxels == ReadU32(content, 0, gw)
        r == XyziLoop(1, numVoxels, content, gb, vp, xf)
    IN  [voxelPalette |-> r.voxelPalette, xforms |-> r.xforms,
         oob |-> Len(content) < 4 + VoxelSize * numVoxels]

\* A faulty XYZI branch: the count is taken from the size of content.
DecodeXyziToContentEnd(content, vp, xf, gw, gb) ==
    LET numVoxels == IF Len(content) >= 4
                     THEN (Len(content) - 4) \div VoxelSize
                     ELSE ReadU32(content, 0, gw)
        r == XyziLoop(0, numVoxels, content, gb, vp, xf)
    IN  [voxelPalette |-> r.voxelPalette, xforms |-> r.xforms,
         oob |-> Len(content) < 4 + VoxelSize * numVoxels]

\* The XYZI branch.
DecodeXyzi(content, vp, xf, gw, gb) ==
    LET numVoxels == ReadU32(content, 0, gw)
        r == XyziLoop(0, numVoxels, content, gb, vp, xf)
    IN  [voxelPalette |-> r.voxelPalette, xforms |-> r.xforms,
         oob |-> Len(content) < 4 + VoxelSize * numVoxels]

\* A faulty store: the value as the float alternative (the disabled std::stof).
StringValueCoerced(s) == [alt |-> "float", str |-> s]

\* material.properties[key] = valueStr: the variant holds the string.
StringValue(s) == [alt |-> "string", str |-> s]

\* std::map::operator[] then assignment; a map is its set of <<key, value>>.
MapPut(m, k, v) == { p \in m : p[1] # k } \cup { << k, v >> }

\* The while loop of the MATL branch, from offset on.
RECURSIVE MatlLoop(_, _, _, _, _)
MatlLoop(content, offset, props, gw, gb) ==
    IF ~(offset < Len(content))
    THEN [properties |-> props, oob |-> FALSE]
    ELSE LET keyLength == ReadU32(content, offset, gw)
             key == ReadString(content, offset + 4, keyLength, gb)
             o2 == offset + 4 + keyLength
             valueLength == ReadU32(content, o2, gw)
             valueStr == ReadString(content, o2 + 4, valueLength, gb)
             o3 == o2 + 4 + valueLength
             r == MatlLoop(content, o3, MapPut(props, key, StringValue(valueStr)),
                           gw, gb)
         IN  [properties |-> r.properties, oob |-> r.oob \/ o3 > Len(content)]

\* The MATL branch.
DecodeMatl(content, gw, gb) ==
    LET r == MatlLoop(content, 8, {}, gw, gb)
    IN  [material |-> [materialId |-> ReadI32(content, 0, gw),
                       properties |-> r.properties],
         oob |-> r.oob \/ Len(content) < 8]

\* A faulty framing: the content length taken from the children length's bytes.
ContentLengthFromChildren(header) == LE32(SubSeq(header, 9, 12))

\* A faulty framing: the content is read one byte short.
ContentLengthOneShort(header) ==
    IF LE32(SubSeq(header, 5, 8)) > 0 THEN LE32(SubSeq(header, 5, 8)) - 1 ELSE 0

\* chunkHeader.contentBytes of a header's twelve bytes.
ContentLength(header) == LE32(SubSeq(header, 5, 8))

\* A faulty bound: the offset of the last children byte, not the one behind it.
ChildrenEndInclusive(currentPosition, childrenBytes) ==
    currentPosition + childrenBytes - 1

\* A faulty bound: childrenEnd without the current position.
ChildrenEndFromZero(currentPosition, childrenBytes) == childrenBytes

\* std::streampos childrenEnd = currentPosition + childrenBytes
ChildrenEnd(currentPosition, childrenBytes) == currentPosition + childrenBytes

\* A faulty test: the magic compared on its first three characters only.
MagicOkFirstThree(magic) == SubSeq(magic, 1, 3) = SubSeq(VoxMagic, 1, 3)

\* std::string(header.magic, 4) != "VOX "
MagicOk(magic) == magic = VoxMagic

\* (palette[i] >> 0, 8, 16, 24) & 0xFF: r, g, b, a
Reflectance(p) == << p[1], p[2], p[3], p[4] >>

(***************************************************************************)
(* The program.                                                            *)
(***************************************************************************)
\* No chunk is being read.
NoChunk == [start |-> 0, id |-> << >>, contentBytes |-> 0, childrenBytes |-> 0,
            content |-> << >>]

\* Material material; before the branch fills it.
NoMaterial == [materialId |-> 0, properties |-> {}]

\* The nodes DL_main creates once the header is accepted.
BaseNodes == { "beautyPass1", "cameraXform1", "camera1", "sensor1", "thinLens1",
               "imageDome1", "groundPlane1", "box1", "groundMat1", "sun1" }

Init ==
    /\ args \in ArgSets
    /\ file \in (IF ReadsFile(args) THEN InputFiles ELSE { << >> })
    /\ pc = "args"
    /\ exitCode = -1
    /\ pos = 0
    /\ eofbit = FALSE
    /\ failbit = FALSE
    /\ stack = << >>
    /\ cur = NoChunk
    /\ topCalls = 0
    /\ voxelPalette = << >>
    /\ xforms = << >>
    /\ paletteStores = {}
    /\ has_palette = FALSE
    /\ material = NoMaterial
    /\ printedSize = << >>
    /\ sceneNodes = {}
    /\ voxMats = << >>
    /\ bindings = {}
    /\ written = FALSE
    /\ oobRead = FALSE
    /\ uninitRead = FALSE
    /\ lastDecoded = NoChunk

\* return code from DL_main.
Return(code) ==
    /\ pc' = "exit"
    /\ exitCode' = code

\* DL_main up to the opening of the file: the flags, the extension, the
\* existence of the file, the open.
CheckArgs ==
    /\ pc = "args"
    /\ IF InfoRequested(args)
       THEN Return(0)
       ELSE IF InputRejected(args)
       THEN Return(1)
       ELSE pc' = "header" /\ exitCode' = exitCode
    /\ UNCHANGED << args, file, streamVars, stack, cur, topCalls, modelVars,
                    written, oobRead, uninitRead, lastDecoded >>

\* DL_main: read VoxHeader, test the magic, create the scene's fixed nodes.
ReadVoxHeader ==
    /\ pc = "header"
    /\ \E stale \in StaleMagics :
         LET r == StreamRead(VoxHeaderSize)
             magic == Overlay(SubSeq(r.got, 1, Min(4, Len(r.got))), stale)
         IN  /\ pos' = r.pos
             /\ eofbit' = r.eofbit
             /\ failbit' = r.failbit
             /\ uninitRead' = (uninitRead \/ Len(r.got) < 4)
             /\ IF MagicOk(magic)
                THEN /\ pc' = "top"
                     /\ exitCode' = exitCode
                     /\ sceneNodes' = BaseNodes
                ELSE /\ Return(1)
                     /\ sceneNodes' = sceneNodes
    /\ UNCHANGED << args, file, stack, cur, topCalls, voxelPalette, xforms,
                    paletteStores, has_palette, material, printedSize, voxMats,
                    bindings, written, oobRead, lastDecoded >>

\* A faulty loop test: while (!file.eof()).
NotEofFlag == ~eofbit

\* file.peek() != EOF: the stream is good and a byte is left.
PeekNotEOF == Good /\ pos < Len(file)

\* while (file.peek() != EOF) readChunk(...): the test.  peek returns EOF on
\* a stream that is not good (and sets failbit), or at the end of the file
\* (and sets eofbit).
TopLoop ==
    /\ pc = "top"
    /\ IF PeekNotEOF
       THEN /\ pc' = "frame"
            /\ topCalls' = topCalls + 1
            /\ UNCHANGED << eofbit, failbit >>
       ELSE /\ pc' = "materials"
            /\ topCalls' = topCalls
            /\ eofbit' = (eofbit \/ Good)
            /\ failbit' = (failbit \/ ~Good)
    /\ UNCHANGED << args, file, exitCode, pos, stack, cur, modelVars, written,
                    oobRead, uninitRead, lastDecoded >>

\* readChunk: read chunkHeader, size the content vector, read the content.
FrameChunk ==
    /\ pc = "frame"
    /\ \E stale \in StaleHeaders :
         LET h == StreamRead(ChunkHeaderSize)
             header == Overlay(h.got, stale)
             contentBytes == ContentLength(header)
             childrenBytes == LE32(SubSeq(header, 9, 12))
             m == IF h.failbit THEN 0 ELSE Min(contentBytes, Len(file) - h.pos)
             got == SubSeq(file, h.pos + 1, h.pos + m)
         IN  /\ cur' = [start |-> pos, id |-> SubSeq(header, 1, 4),
                        contentBytes |-> contentBytes,
                        childrenBytes |-> childrenBytes,
                        content |-> Overlay(got, Zeros(contentBytes))]
             /\ pos' = h.pos + m
             /\ eofbit' = (h.eofbit \/ m < contentBytes)
             /\ failbit' = (h.failbit \/ m < contentBytes)
             /\ uninitRead' = (uninitRead \/ Len(h.got) < ChunkHeaderSize)
    /\ pc' = "decode"
    /\ UNCHANGED << args, file, exitCode, stack, topCalls, modelVars, written,
                    oobRead, lastDecoded >>

\* What the branches leave alone; the chunk they ran on is noted.
BranchFrame ==
    /\ lastDecoded' = cur
    /\ UNCHANGED << args, file, exitCode, streamVars, stack, cur, topCalls,
                    paletteStores, has_palette, sceneNodes, voxMats, bindings,
                    written, uninitRead >>

\* if (chunkId == "SIZE")
BranchSIZE ==
    /\ pc = "decode" /\ cur.id = TagSIZE
    /\ \E gw \in GarbageWords :
         LET r == DecodeSize(cur.content, gw)
         IN  /\ printedSize' = Append(printedSize, r.size)
             /\ oobRead' = (oobRead \/ r.oob)
    /\ pc' = "tell"
    /\ UNCHANGED << voxelPalette, xforms, material >>
    /\ BranchFrame

\* else if (chunkId == "XYZI")
BranchXYZI ==
    /\ pc = "decode" /\ cur.id = TagXYZI
    /\ \E gw \in GarbageWords, gb \in GarbageBytes :
         LET r == DecodeXyzi(cur.content, voxelPalette, xforms, gw, gb)
         IN  /\ voxelPalette' = r.voxelPalette
             /\ xforms' = r.xforms
             /\ oobRead' = (oobRead \/ r.oob)
    /\ pc' = "tell"
    /\ UNCHANGED << material, printedSize >>
    /\ BranchFrame

\* else if (chunkId == "MATL")
BranchMATL ==
    /\ pc = "decode" /\ cur.id = TagMATL
    /\ \E gw \in GarbageWords, gb \in GarbageBytes :
         LET r == DecodeMatl(cur.content, gw, gb)
         IN  /\ material' = r.material
             /\ oobRead' = (oobRead \/ r.oob)
    /\ pc' = "tell"
    /\ UNCHANGED << voxelPalette, xforms, printedSize >>
    /\ BranchFrame

\* else if (chunkId == "rCAM") ... "NOTE": the name is printed.
BranchNameOnly ==
    /\ pc = "decode" /\ cur.id \in NameOnlyTags
    /\ pc' = "tell"
    /\ UNCHANGED << voxelPalette, xforms, material, printedSize, oobRead >>
    /\ BranchFrame

\* No branch is taken (the RGBA branch is inside a comment).
BranchNone ==
    /\ pc = "decode" /\ cur.id \notin RecognizedTags
    /\ pc' = "tell"
    /\ UNCHANGED << voxelPalette, xforms, material, printedSize, oobRead >>
    /\ BranchFrame

\* Whether the branch for this chunk reads past the end of content.
ReadsPastContent(id, content, gw, gb) ==
    \/ id = TagSIZE /\ DecodeSize(content, gw).oob
    \/ id = TagXYZI /\ DecodeXyzi(content, << >>, << >>, gw, gb).oob
    \/ id = TagMATL /\ DecodeMatl(content, gw, gb).oob

\* A read past the end of content may also end the process (SIGSEGV).
BranchFault ==
    /\ pc = "decode"
    /\ \E gw \in GarbageWords, gb \in GarbageBytes :
         ReadsPastContent(cur.id, cur.content, gw, gb)
    /\ pc' = "crashed"
    /\ oobRead' = TRUE
    /\ UNCHANGED << voxelPalette, xforms, material, printedSize >>
    /\ BranchFrame

\* currentPosition = file.tellg(); childrenEnd = currentPosition + childrenBytes
TellChildrenEnd ==
    /\ pc = "tell"
    /\ stack' = Append(stack,
                       [start |-> cur.start, id |-> cur.id,
                        contentBytes |-> cur.contentBytes,
                        childrenBytes |-> cur.childrenBytes,
                        payloadEnd |-> pos,
                        childrenEnd |-> ChildrenEnd(Tellg, cur.childrenBytes)])
    /\ cur' = NoChunk
    /\ pc' = "loop"
    /\ UNCHANGED << args, file, exitCode, streamVars, topCalls, modelVars,
                    written, oobRead, uninitRead, lastDecoded >>

LoopFrame ==
    UNCHANGED << args, file, exitCode, streamVars, cur, topCalls, modelVars,
                 written, oobRead, uninitRead, lastDecoded >>

\* while (file.tellg() < childrenEnd) readChunk(...): the call.
ChildCall ==
    /\ pc = "loop"
    /\ Tellg < stack[Len(stack)].childrenEnd
    /\ Len(stack) < MaxDepth
    /\ pc' = "frame"
    /\ UNCHANGED stack
    /\ LoopFrame

\* The call that finds no stack left.
ChildStackOverflow ==
    /\ pc = "loop"
    /\ Tellg < stack[Len(stack)].childrenEnd
    /\ Len(stack) >= MaxDepth
    /\ pc' = "crashed"
    /\ UNCHANGED stack
    /\ LoopFrame

\* The loop ends and readChunk returns to its caller's loop.
ChildReturn ==
    /\ pc = "loop"
    /\ ~(Tellg < stack[Len(stack)].childrenEnd)
    /\ stack' = SubSeq(stack, 1, Len(stack) - 1)
    /\ pc' = IF Len(stack) = 1 THEN "top" ELSE "loop"
    /\ LoopFrame

\* A faulty loop: it starts at 1, index 0 being the "empty" colour.
MaterialLoopFromOne == [k \in 1..(PaletteSize - 1) |-> k]

\* for (int i = 0; i < 256; i++): the values of i, in order.
MaterialLoop == [k \in 1..PaletteSize |-> k - 1]

\* if (!has_palette) for (i = 0; i < 256; i++) createNode("orenNayar", voxMat<i>)
CreateMaterials ==
    /\ pc = "materials"
    /\ voxMats' = IF ~has_palette
                  THEN [k \in 1..Len(MaterialLoop) |->
                          [name |-> MaterialLoop[k],
                           reflectance |-> Reflectance(palette[MaterialLoop[k] + 1])]]
                  ELSE voxMats
    /\ pc' = "bind"
    /\ UNCHANGED << args, file, exitCode, streamVars, stack, cur, topCalls,
                    voxelPalette, xforms, paletteStores, has_palette, material,
                    printedSize, sceneNodes, bindings, written, oobRead, uninitRead,
                    lastDecoded >>

\* What createNode("xform", voxXform<i>, voxXform<i>) does when the scene
\* already has a node of that name is the scene library's choice: it hands
\* back that node (whose matrix the XYZI branch then sets again), or it
\* makes a further node that the name does not find.
DuplicateNamePolicies == { "same node", "further node" }

\* findNode(voxXform<i>): the createNode call, by its place in xf, that set
\* the matrix of the node found; 0 when no node has the name.
FindXform(xf, i, policy) ==
    LET calls == { k \in 1..Len(xf) : xf[k].name = i }
    IN  IF calls = {}
        THEN 0
        ELSE IF policy = "same node"
        THEN CHOOSE k \in calls : \A j \in calls : j <= k
        ELSE CHOOSE k \in calls : \A j \in calls : k <= j

\* for (i = 0; i < voxelPalette.size(); i++)
\*     findNode(voxXform<i>)["material"] = findNode(voxMat<voxelPalette[i]>)
BindMaterials ==
    /\ pc = "bind"
    /\ \E policy \in DuplicateNamePolicies :
         bindings' = { [xform |-> FindXform(xforms, i, policy),
                        material |-> voxelPalette[i + 1]] :
                          i \in 0..(Len(voxelPalette) - 1) }
    /\ pc' = "write"
    /\ UNCHANGED << args, file, exitCode, streamVars, stack, cur, topCalls,
                    voxelPalette, xforms, paletteStores, has_palette, material,
                    printedSize, sceneNodes, voxMats, written, oobRead, uninitRead,
                    lastDecoded >>

\* file.close(); sceneWrite.write(...); return 0
WriteScene ==
    /\ pc = "write"
    /\ written' = TRUE
    /\ Return(0)
    /\ UNCHANGED << args, file, streamVars, stack, cur, topCalls, modelVars,
                    oobRead, uninitRead, lastDecoded >>

Next ==
    \/ CheckArgs
    \/ ReadVoxHeader
    \/ TopLoop
    \/ FrameChunk
    \/ BranchSIZE
    \/ BranchXYZI
    \/ BranchMATL
    \/ BranchNameOnly
    \/ BranchNone
    \/ BranchFault
    \/ TellChildrenEnd
    \/ ChildCall
    \/ ChildStackOverflow
    \/ ChildReturn
    \/ CreateMaterials
    \/ BindMaterials
    \/ WriteScene

Spec == Init /\ [][Next]_vars

\* The program runs as long as it has a step to take.
FairSpec == Spec /\ WF_vars(Next)

(***************************************************************************)
(* Properties.                                                             *)
(***************************************************************************)
\* The chunk header under the cursor, when all twelve bytes are there.
HeaderAhead == SubSeq(file, pos + 1, pos + ChunkHeaderSize)

\* C1: for a valid input (every chunk's children exactly fill its declared
\* children length, nothing cut off), the childrenEnd of every chunk is the
\* cursor offset right after its header and payload were read plus its
\* declared children length, and while its children are processed the cursor
\* has not passed childrenEnd: no byte at or beyond childrenEnd was read.
C1_ChildrenEndBoundsChildren ==
    file \in ValidFiles =>
        \A i \in 1..Len(stack) :
            /\ stack[i].payloadEnd
                 = stack[i].start + ChunkHeaderSize + stack[i].contentBytes
            /\ stack[i].childrenEnd = stack[i].payloadEnd + stack[i].childrenBytes
            /\ pos <= stack[i].childrenEnd

\* C1 witness: a valid file, inside a nested chunk, the cursor at the outer
\* chunk's childrenEnd after its children were read.
C1_Witness ==
    /\ file \in ValidFiles
    /\ Len(stack) >= 2
    /\ pc = "loop"
    /\ stack[1].childrenBytes > 0
    /\ pos = stack[1].childrenEnd

\* C2: when all the bytes of the input are present (no read came up short),
\* no read made while a child chunk is decoded consumes a byte at or beyond
\* the childrenEnd of a chunk it is nested in, whatever lengths the child
\* declares.
C2_ChildReadsStayInParentRegion ==
    ~failbit => \A i \in 1..Len(stack) : pos <= stack[i].childrenEnd

\* C3: decoding an XYZI payload with count N and at least 4 + 4N bytes
\* appends exactly N entries, the i-th from payload bytes 4+4i .. 4+4i+3
\* (x, y, z, colorIndex), in order, and changes nothing else of the model.
C3_XyziAppendsExactlyN ==
    [][ ( /\ pc = "decode"
          /\ cur.id = TagXYZI
          /\ Len(cur.content) >= 4
          /\ Len(cur.content) >= 4 + 4 * LE32(SubSeq(cur.content, 1, 4)) )
        => LET c == cur.content
               N == LE32(SubSeq(c, 1, 4))
               nv == Len(voxelPalette)
               nx == Len(xforms)
           IN  /\ pc' = "tell"
               /\ Len(voxelPalette') = nv + N
               /\ Len(xforms') = nx + N
               /\ SubSeq(voxelPalette', 1, nv) = voxelPalette
               /\ SubSeq(xforms', 1, nx) = xforms
               /\ \A i \in 0..(N - 1) :
                    /\ xforms'[nx + i + 1].at
                         = << c[4 + 4 * i + 1], c[4 + 4 * i + 2], c[4 + 4 * i + 3] >>
                    /\ xforms'[nx + i + 1].at \in (0..255) \X (0..255) \X (0..255)
                    /\ voxelPalette'[nv + i + 1] = c[4 + 4 * i + 4]
                    /\ voxelPalette'[nv + i + 1] \in 0..255
               /\ UNCHANGED << paletteStores, has_palette, material, printedSize,
                               sceneNodes, voxMats, bindings, oobRead >>
      ]_vars

\* C3 witness: an XYZI chunk with two or more voxels, all in the payload, decoded.
C3_Witness ==
    /\ pc = "tell"
    /\ cur.id = TagXYZI
    /\ Len(cur.content) >= 4 + 4 * 2
    /\ LE32(SubSeq(cur.content, 1, 4)) >= 2
    /\ Len(voxelPalette) >= 2
    /\ voxelPalette[Len(voxelPalette)] = cur.content[12]
    /\ ~oobRead

\* The file's first four bytes are there and are not "VOX ".
WrongMagic == Len(file) >= 4 /\ SubSeq(file, 1, 4) # VoxMagic

\* C4: when the first four bytes of the file differ from "VOX ", the run
\* ends with exit code 1 before readChunk is called once, and nothing is
\* written.
C4_BadMagicExitsBeforeChunks ==
    (ReadsFile(args) /\ WrongMagic /\ pc \notin { "args", "header" })
        => /\ pc = "exit"
           /\ exitCode = 1
           /\ topCalls = 0
           /\ cur = NoChunk
           /\ stack = << >>
           /\ voxelPalette = << >>
           /\ ~written

\* C4 witness: a file with a wrong magic and a chunk behind it was refused.
C4_Witness ==
    /\ ReadsFile(args)
    /\ WrongMagic
    /\ Len(file) > VoxHeaderSize
    /\ pc = "exit"
    /\ exitCode = 1

\* C5: when the bytes end in the middle of a chunk (a read of readChunk
\* comes up short), the decode is aborted: the run goes on to no material,
\* binding or writing step, writes nothing and does not return 0.  Stated
\* for the runs in which the program's behaviour is defined: every header
\* it used was read in full (the bytes end inside a chunk's content) and no
\* branch read past its payload.
C5_TruncatedDecodeFails ==
    (failbit /\ topCalls > 0 /\ ~uninitRead /\ ~oobRead)
        => /\ pc \notin { "materials", "bind", "write" }
           /\ ~written
           /\ ~(pc = "exit" /\ exitCode = 0)

\* C6: for every input the decode eventually stops: DL_main returns or the
\* process ends.
C6_DecodeTerminates == <>(pc \in { "exit", "crashed" })

\* The header under the cursor is all there, has an unrecognized tag,
\* children length 0, and its content is all there.
SkippableAhead ==
    /\ Good
    /\ pos + ChunkHeaderSize <= Len(file)
    /\ SubSeq(HeaderAhead, 1, 4) \notin RecognizedTags
    /\ LE32(SubSeq(HeaderAhead, 9, 12)) = 0
    /\ pos + ChunkHeaderSize + LE32(SubSeq(HeaderAhead, 5, 8)) <= Len(file)

\* The chunk being read is one SkippableAhead described.
SkippingNow ==
    /\ cur.id \notin RecognizedTags
    /\ cur.childrenBytes = 0
    /\ ~failbit

\* C7: skipping a chunk with an unrecognized tag, children length 0 and
\* content length K, its K bytes present, leaves the cursor exactly K bytes
\* past the 12-byte header, raises no error, and changes nothing of the
\* model (voxels, palette, palette flag, scene nodes).
C7_SkipUnrecognized ==
    [][ /\ (pc = "frame" /\ SkippableAhead)
             => /\ pos' = pos + ChunkHeaderSize + LE32(SubSeq(HeaderAhead, 5, 8))
                /\ pc' = "decode"
                /\ ~failbit' /\ ~eofbit'
                /\ UNCHANGED << modelVars, oobRead, exitCode >>
        /\ (pc \in { "decode", "tell" } /\ SkippingNow)
             => /\ pc' = (IF pc = "decode" THEN "tell" ELSE "loop")
                /\ UNCHANGED << modelVars, streamVars, oobRead, exitCode >>
        /\ ( /\ pc = "loop"
             /\ ~failbit
             /\ stack[Len(stack)].id \notin RecognizedTags
             /\ stack[Len(stack)].childrenBytes = 0 )
             => /\ pc' \in { "top", "loop" }
                /\ Len(stack') = Len(stack) - 1
                /\ UNCHANGED << modelVars, streamVars, oobRead, exitCode >>
      ]_vars

\* C7 witness: an unrecognized chunk with two content bytes was skipped and
\* the cursor stands two bytes behind its header.
C7_Witness ==
    /\ pc = "loop"
    /\ ~failbit
    /\ stack[Len(stack)].id = TagUnknown
    /\ stack[Len(stack)].childrenBytes = 0
    /\ stack[Len(stack)].contentBytes = 2
    /\ pos = stack[Len(stack)].start + ChunkHeaderSize + 2
    /\ sceneNodes = BaseNodes

\* The materials the loop over the default palette creates.
DefaultMaterials ==
    [k \in 1..PaletteSize |->
        [name |-> k - 1, reflectance |-> Reflectance(DefaultPalette[k])]]

\* C8: decoding an RGBA chunk with at least 1024 payload bytes replaces all
\* 256 palette entries by the payload's first 256 words and sets
\* has_palette; with no RGBA chunk the default palette is used unmodified.
C8_PaletteChunkReplacesPalette ==
    /\ (pc = "tell" /\ cur.id = TagRGBA /\ Len(cur.content) >= 4 * PaletteSize)
         => /\ has_palette
            /\ \A i \in 0..(PaletteSize - 1) :
                 palette[i + 1] = SubSeq(cur.content, 4 * i + 1, 4 * i + 4)
    /\ ~has_palette
         => /\ palette = DefaultPalette
            /\ written => voxMats = DefaultMaterials

\* The payload is shorter than the layout the chunk's tag requires.
PayloadTooShort(id, content) ==
    \/ id = TagSIZE /\ Len(content) < 12
    \/ id = TagXYZI /\ Len(content) < 4
    \/ id = TagXYZI /\ Len(content) >= 4
         /\ Len(content) < 4 + 4 * LE32(SubSeq(content, 1, 4))
    \/ id = TagMATL /\ Len(content) < 8
    \/ id = TagMATL /\ Len(content) >= 8 /\ DecodeMatl(content, 0, 0).oob

\* C9: a recognized chunk whose payload is shorter than its layout makes the
\* decode fail: the branch reads no byte outside the payload, appends no
\* record, and the run does not go on to the chunk's children.
C9_ShortPayloadFails ==
    [][ (pc = "decode" /\ ~failbit /\ PayloadTooShort(cur.id, cur.content))
        => /\ pc' # "tell"
           /\ ~oobRead'
           /\ UNCHANGED << voxelPalette, xforms, material, printedSize >>
      ]_vars

\* The dictionary a sample encodes: each key with the value of its last pair.
ExpectedProperties(s) ==
    { << s.pairs[i][1], [alt |-> "string", str |-> s.pairs[i][2]] >> :
        i \in { j \in 1..Len(s.pairs) :
                  \A k \in (j + 1)..Len(s.pairs) : s.pairs[k][1] # s.pairs[j][1] } }

\* C10: decoding a MATL payload laid out as int32 id, uint32 reserved and
\* [keyLen, key, valLen, value] pairs yields a Material with that id whose
\* dictionary maps every key to its value as the raw string ("_rough" to
\* "0.4"); no value is turned into a number.
C10_MatlKeepsRawStrings ==
    \A s \in MatlSamples :
        (pc = "tell" /\ cur.id = TagMATL /\ cur.content = MatlPayload(s))
            => /\ material.materialId = s.id
               /\ material.properties = ExpectedProperties(s)
               /\ \A p \in material.properties : p[2].alt = "string"
               /\ ~oobRead

\* C10 witness: the material with id -1 and "_rough" = "0.4" was decoded.
C10_Witness ==
    /\ pc = "tell"
    /\ cur.id = TagMATL
    /\ material.materialId = -1
    /\ << KeyRough, [alt |-> "string", str |-> ValPoint4] >> \in material.properties
    /\ Cardinality(material.properties) = 2

\* One of the failures DL_main tests for before it reads a chunk.
ValidationFailure ==
    \/ ~args.voxin
    \/ ~args.extOk
    \/ ~args.exists
    \/ ~args.opens
    \/ WrongMagic

\* C12: in a run that was asked for no version, help or license text, a
\* missing --voxin, a path without ".vox", a file that does not exist, a
\* failed open and a wrong magic each end the run with exit code 1, before
\* readChunk is called and before anything is written; exit code 0 comes
\* only with none of these failures, after the scene was written.
C12_ExitCodes ==
    ~(args.version \/ args.help \/ args.licenseinfo \/ args.thirdparty)
        => /\ ValidationFailure
                => /\ pc \in { "args", "header", "exit" }
                   /\ pc = "exit" => exitCode = 1
                   /\ topCalls = 0
                   /\ cur = NoChunk
                   /\ stack = << >>
                   /\ sceneNodes = {}
                   /\ ~written
           /\ (pc = "exit" /\ exitCode = 0) => (~ValidationFailure /\ written)
           /\ pc = "exit" => exitCode \in { 0, 1 }

\* C12 witness: the file exists and cannot be opened; the run ended with 1.
C12_Witness ==
    /\ ~(args.version \/ args.help \/ args.licenseinfo \/ args.thirdparty)
    /\ args.voxin /\ args.extOk /\ args.exists /\ ~args.opens
    /\ pc = "exit"
    /\ exitCode = 1
    /\ ~written

\* The chunks that lie one behind the other from offset p of f on, each
\* taken with its declared content and children lengths.
RECURSIVE ChunksFrom(_, _)
ChunksFrom(f, p) ==
    IF p + ChunkHeaderSize > Len(f)
    THEN 0
    ELSE 1 + ChunksFrom(f, p + ChunkHeaderSize
                             + LE32(SubSeq(f, p + 5, p + 8))
                             + LE32(SubSeq(f, p + 9, p + 12)))

\* C13: for a well-formed file (the header, then complete chunks), DL_main's
\* loop calls readChunk once per top-level chunk, finds the end of the file
\* after the last one without any read having failed, and the run ends with
\* the scene written and exit code 0; a file of the 8-byte header alone
\* gives no call, no voxel, and the same end.
C13_TopLoopRunsToEnd ==
    (pc = "top" /\ topCalls = 0 /\ file \in ValidFiles)
        ~> ( /\ pc = "exit"
             /\ exitCode = 0
             /\ written
             /\ topCalls = ChunksFrom(file, VoxHeaderSize)
             /\ pos = Len(file)
             /\ eofbit
             /\ ~failbit
             /\ ~oobRead
             /\ ~uninitRead
             /\ Len(file) = VoxHeaderSize
                  => (topCalls = 0 /\ voxelPalette = << >> /\ bindings = {}) )

\* C13 witness: a well-formed file with two top-level chunks was read to
\* its end by two calls.
C13_Witness ==
    /\ file \in ValidFiles
    /\ ChunksFrom(file, VoxHeaderSize) = 2
    /\ pc = "exit"
    /\ exitCode = 0
    /\ topCalls = 2
    /\ pos = Len(file)

\* The content length written in the file's chunk header at offset start.
DeclaredContent(start) == LE32(SubSeq(file, start + 5, start + 8))

\* C14: while no read has failed, the cursor never moves back; a chunk is
\* framed at the cursor; when its branch runs, its whole declared content
\* has been read and it begins right where the content of the chunk decoded
\* before it ended (its parent's first child, or the next chunk in the
\* file), inside the children region of the chunk it is read for; and when
\* a child is framed, the payloads of all chunks it is nested in were read
\* and their branches have run.
C14_PayloadThenChildrenInFileOrder ==
    [][ /\ pos' >= pos
        /\ ~failbit' => Tellg' >= Tellg
        /\ pc = "frame"
             => /\ pc' = "decode"
                /\ cur'.start = pos
                /\ \A i \in 1..Len(stack) :
                     /\ stack[i].payloadEnd <= pos
                     /\ ~failbit => stack[i].start <= lastDecoded.start
        /\ (pc = "decode" /\ ~failbit)
             => /\ cur.contentBytes = DeclaredContent(cur.start)
                /\ Len(cur.content) = DeclaredContent(cur.start)
                /\ cur.content = SubSeq(file, cur.start + ChunkHeaderSize + 1, pos)
                /\ pos = cur.start + ChunkHeaderSize + DeclaredContent(cur.start)
                /\ lastDecoded' = cur
                /\ lastDecoded # NoChunk
                     => cur.start = lastDecoded.start + ChunkHeaderSize
                                      + lastDecoded.contentBytes
                /\ lastDecoded = NoChunk => cur.start = VoxHeaderSize
                /\ stack # << >>
                     => /\ stack[Len(stack)].payloadEnd <= cur.start
                        /\ cur.start < stack[Len(stack)].childrenEnd
      ]_vars

\* C14 witness: in MAIN, inside NGRP, its child XYZI is framed right behind
\* NGRP's payload, NGRP being the chunk decoded last.
C14_Witness ==
    /\ pc = "decode"
    /\ ~failbit
    /\ Len(stack) = 2
    /\ stack[1].id = TagMAIN
    /\ stack[2].id = TagNGRP
    /\ lastDecoded.id = TagNGRP
    /\ cur.id = TagXYZI
    /\ cur.start = stack[2].payloadEnd

\* C15: after a well-formed file was decoded and bound, every voxel, counted
\* in file order over all XYZI chunks, has a transform node of its own at
\* its (x, y, z), and the binding loop gave that node the material of the
\* voxel's own palette index; also with more than one XYZI chunk.
C15_EachVoxelBoundToItsMaterial ==
    (file \in ValidFiles /\ pc \in { "write", "exit" } /\ exitCode # 1 /\ topCalls > 0)
        => /\ Len(xforms) = Len(voxelPalette)
           /\ \A k \in 1..Len(voxelPalette) :
                [xform |-> k, material |-> voxelPalette[k]] \in bindings
           /\ \A b \in bindings : b.xform # 0

\* The chunk's payload is longer than the layout its branch parses.
LongPayload(c) ==
    \/ c.id = TagSIZE /\ Len(c.content) > 12
    \/ /\ c.id = TagXYZI
       /\ Len(c.content) >= 4
       /\ Len(c.content) > 4 + 4 * LE32(SubSeq(c.content, 1, 4))

\* C16: a SIZE chunk with more than 12 content bytes prints the three words
\* of its first 12 bytes; an XYZI chunk with count N and more than 4 + 4N
\* content bytes appends the N voxels of its first 4 + 4N bytes and nothing
\* for the bytes behind them; neither reads outside the payload; after
\* either the cursor stands at the chunk's start + 12 + its content length,
\* and the chunk decoded next begins there.
C16_TrailingPayloadIgnored ==
    [][ /\ (pc = "decode" /\ ~failbit /\ LongPayload(cur) /\ cur.id = TagSIZE)
             => LET c == cur.content
                IN  /\ pc' = "tell"
                    /\ printedSize'
                         = Append(printedSize,
                                  << LE32(SubSeq(c, 1, 4)), LE32(SubSeq(c, 5, 8)),
                                     LE32(SubSeq(c, 9, 12)) >>)
                    /\ UNCHANGED << voxelPalette, xforms, streamVars, oobRead >>
        /\ (pc = "decode" /\ ~failbit /\ LongPayload(cur) /\ cur.id = TagXYZI)
             => LET c == cur.content
                    N == LE32(SubSeq(c, 1, 4))
                IN  /\ pc' = "tell"
                    /\ voxelPalette'
                         = voxelPalette \o [i \in 1..N |-> c[4 + 4 * i]]
                    /\ xforms'
                         = xforms \o [i \in 1..N |->
                                        [name |-> i - 1,
                                         at |-> << c[4 * i + 1], c[4 * i + 2],
                                                   c[4 * i + 3] >>]]
                    /\ UNCHANGED << printedSize, streamVars, oobRead >>
        /\ (pc = "tell" /\ ~failbit /\ LongPayload(cur))
             => /\ Len(cur.content) = cur.contentBytes
                /\ pos = cur.start + ChunkHeaderSize + cur.contentBytes
                /\ stack'[Len(stack')].childrenEnd = pos + cur.childrenBytes
        /\ (pc = "decode" /\ ~failbit /\ LongPayload(lastDecoded))
             => cur.start = lastDecoded.start + ChunkHeaderSize
                              + lastDecoded.contentBytes
      ]_vars

\* C16 witness: SIZE with 13 content bytes was followed by XYZI with one
\* voxel and four more bytes, framed 25 bytes behind SIZE's start; the one
\* voxel was appended.
C16_Witness ==
    /\ pc = "tell"
    /\ ~failbit
    /\ cur.id = TagXYZI
    /\ LongPayload(cur)
    /\ Len(cur.content) = 12
    /\ voxelPalette = << cur.content[8] >>
    /\ printedSize = << << 3, 4, 5 >> >>
    /\ Len(stack) = 1
    /\ cur.start = stack[1].payloadEnd + ChunkHeaderSize + 13
    /\ ~oobRead

\* The children length written in the file's chunk header at offset start.
DeclaredChildren(start) == LE32(SubSeq(file, start + 9, start + 12))

\* C17: in a well-formed file, when a call of readChunk returns, at any
\* depth, the cursor stands at the chunk's start + 12 + its content length +
\* its children length, which is the call's childrenEnd; no read has failed,
\* the return leaves the cursor there, and the call has moved the cursor
\* forward by 12 bytes or more.
C17_CursorAtChildrenEndOnReturn ==
    [][ (file \in ValidFiles /\ pc = "loop" /\ Len(stack') < Len(stack))
        => LET f == stack[Len(stack)]
           IN  /\ ~failbit
               /\ pos = f.start + ChunkHeaderSize + DeclaredContent(f.start)
                          + DeclaredChildren(f.start)
               /\ pos = f.childrenEnd
               /\ pos >= f.start + ChunkHeaderSize
               /\ pos' = pos
               /\ stack' = SubSeq(stack, 1, Len(stack) - 1)
               /\ pc' = (IF Len(stack) = 1 THEN "top" ELSE "loop")
      ]_vars

\* C17 witness: the XYZI chunk inside NGRP inside MAIN was read and its call
\* is about to return, three calls deep, the cursor at its childrenEnd.
C17_Witness ==
    /\ file \in ValidFiles
    /\ pc = "loop"
    /\ Len(stack) = 3
    /\ stack[3].id = TagXYZI
    /\ stack[3].contentBytes = 8
    /\ pos = stack[3].start + ChunkHeaderSize + 8
    /\ pos = stack[3].childrenEnd

\* The createNode calls that made the material voxMat<i>.
MaterialCalls(i) == { k \in 1..Len(voxMats) : voxMats[k].name = i }

\* C18: when the binding loop runs, and from then on, there is exactly one
\* material voxMat<i> for every index i in 0..255, made from entry i of the
\* default palette, so every palette index a decoded voxel carries, and
\* every material a binding names, has its material; this is so whether or
\* not the file held an RGBA chunk.
C18_MaterialForEveryIndex ==
    (pc \in { "bind", "write" } \/ (pc = "exit" /\ written))
        => /\ ~has_palette
           /\ Len(voxMats) = PaletteSize
           /\ \A i \in 0..(PaletteSize - 1) :
                /\ Cardinality(MaterialCalls(i)) = 1
                /\ \A k \in MaterialCalls(i) :
                     voxMats[k].reflectance = DefaultPalette[i + 1]
           /\ \A j \in 1..Len(voxelPalette) : MaterialCalls(voxelPalette[j]) # {}
           /\ \A b \in bindings : MaterialCalls(b.material) # {}

\* C18 witness: a file with a voxel and an RGBA chunk behind it was decoded,
\* and the binding loop is about to run with the voxel's material made.
C18_Witness ==
    /\ pc = "bind"
    /\ lastDecoded.id = TagRGBA
    /\ Len(lastDecoded.content) = 4 * PaletteSize
    /\ Len(voxelPalette) = 1
    /\ MaterialCalls(voxelPalette[1]) # {}
    /\ ~failbit

=============================================================================
